---------------------------- MODULE Spec2Model ----------------------------
(***************************************************************************)
(* A model of the Python interop layer of ADC-platform:                    *)
(*   src/src/interfaces/interop/py/ipc_client.py  (IPCMessage, IPCServer)  *)
(*   src/src/interfaces/interop/py/base_module.py (start_ipc_server)       *)
(* The model follows the branch platform.system() != "Windows" (Unix       *)
(* domain sockets with an endpoint file on disk).                          *)
(*                                                                         *)
(* Python values are records tagged by k: "null" (None), "str" (v: the     *)
(* text as a sequence of pieces), "num", "list" (v: a sequence of values), *)
(* "dict" (v: a function from key to value) and "bytes" (v: a sequence of  *)
(* integers 0..255).  Base64 text (tag "b64") is a sequence of alphabet    *)
(* indices 0..63 with 64 standing for the padding character '='.           *)
(***************************************************************************)
EXTENDS Integers, Sequences, FiniteSets, TLC

(***************************************************************************)
(* Bounds of the model.                                                    *)
(***************************************************************************)
MaxLines == 2
MaxBytes == 3
MaxBlanks == 1
MaxAcceptErrors == 2

Servers == {1, 2}
Clients == {1, 2}
ByteVals == {0, 1, 128, 255}

(***************************************************************************)
(* Python values.                                                          *)
(***************************************************************************)
None == [k |-> "null"]
Str(s) == [k |-> "str", v |-> IF s = "" THEN << >> ELSE <<s>>]
Text(pieces) == [k |-> "str", v |-> pieces]
Num(n) == [k |-> "num", v |-> n]
List(seq) == [k |-> "list", v |-> seq]
Dict(d) == [k |-> "dict", v |-> d]
Bytes(bs) == [k |-> "bytes", v |-> bs]

\* bool(value): the truth value Python gives a value in `not x` / `x or y`
Truthy(val) ==
    CASE val.k = "null" -> FALSE
      [] val.k = "str" -> val.v # << >>
      [] val.k = "num" -> val.v # 0
      [] val.k = "list" -> val.v # << >>
      [] val.k = "dict" -> DOMAIN val.v # {}
      [] val.k = "bytes" -> val.v # << >>
      [] OTHER -> TRUE

\* dict.get(key, default)
Get(d, key, default) == IF key \in DOMAIN d THEN d[key] ELSE default

(***************************************************************************)
(* base64.b64encode / base64.b64decode                                     *)
(***************************************************************************)
Pad == 64

Sextets(n) == << n \div 262144, (n \div 4096) % 64, (n \div 64) % 64, n % 64 >>

RECURSIVE B64Encode(_)
B64Encode(bs) ==
    IF Len(bs) = 0 THEN << >>
    ELSE IF Len(bs) = 1 THEN
        LET s == Sextets(bs[1] * 65536) IN << s[1], s[2], Pad, Pad >>
    ELSE IF Len(bs) = 2 THEN
        LET s == Sextets(bs[1] * 65536 + bs[2] * 256) IN << s[1], s[2], s[3], Pad >>
    ELSE
        Sextets(bs[1] * 65536 + bs[2] * 256 + bs[3])
            \o B64Encode(SubSeq(bs, 4, Len(bs)))

\* One quantum of four characters; the result is a sequence of bytes.
DecodeQuad(q) ==
    IF q[3] = Pad
    THEN << (q[1] * 4 + q[2] \div 16) % 256 >>
    ELSE IF q[4] = Pad
    THEN << (q[1] * 4 + q[2] \div 16) % 256,
            ((q[2] % 16) * 16 + q[3] \div 4) % 256 >>
    ELSE << (q[1] * 4 + q[2] \div 16) % 256,
            ((q[2] % 16) * 16 + q[3] \div 4) % 256,
            ((q[3] % 4) * 64 + q[4]) % 256 >>

\* binascii.Error("Incorrect padding"): the text is not a whole number of
\* quanta, or padding stands where data must stand.
B64Valid(txt) ==
    /\ Len(txt) % 4 = 0
    /\ \A j \in 1..Len(txt) :
          txt[j] = Pad => /\ j > Len(txt) - 2
                          /\ j % 4 \in {0, 3}
                          /\ (j % 4 = 3 => txt[j + 1] = Pad)

RECURSIVE B64Decode(_)
B64Decode(txt) ==
    IF Len(txt) = 0 THEN << >>
    ELSE DecodeQuad(SubSeq(txt, 1, 4)) \o B64Decode(SubSeq(txt, 5, Len(txt)))

(***************************************************************************)
(* IPCMessage                                                              *)
(***************************************************************************)
\* IPCMessage.__init__: args or []
IPCMessage(msg_id, msg_type, method, args, result, error) ==
    [id |-> msg_id, type |-> msg_type, method |-> method,
     args |-> IF Truthy(args) THEN args ELSE List(<< >>),
     result |-> result, error |-> error]

to_dict(m) ==
    [id |-> m.id, type |-> m.type, method |-> m.method, args |-> m.args,
     result |-> m.result, error |-> m.error]

\* from_dict reading the kind from a key "kind" that to_dict never writes
from_dict_KindKey(data) ==
    IPCMessage(Get(data, "id", Str("")), Get(data, "kind", Str("")),
               Get(data, "method", None), Get(data, "args", None),
               Get(data, "result", None), Get(data, "error", None))

from_dict(data) ==
    IPCMessage(Get(data, "id", Str("")), Get(data, "type", Str("")),
               Get(data, "method", None), Get(data, "args", None),
               Get(data, "result", None), Get(data, "error", None))


(***************************************************************************)
(* Tagged buffers: {"__type": "Buffer", "data": <base64 text>}.  A Python  *)
(* str holding base64 text has the tag "b64".                              *)
(***************************************************************************)
B64Str(txt) == [k |-> "b64", v |-> txt]
TaggedBuffer(data) == Dict(("__type" :> Str("Buffer")) @@ ("data" :> data))

\* isinstance(arg, dict) and arg.get("__type") == "Buffer"
IsTagged(arg) == arg.k = "dict" /\ Get(arg.v, "__type", None) = Str("Buffer")

(***************************************************************************)
(* The handler mapping (BaseModule.get_handler_methods) of the module      *)
(* under test: echo returns its one positional argument, boom raises,      *)
(* nested returns a list holding bytes.                                    *)
(***************************************************************************)
\* dir(instance) of the object get_instance() returns: each attribute name
\* (a sequence of pieces; a name that starts with '_' has "_" as its first
\* piece) with what the attribute is.  "value" is an attribute that is not
\* callable.
Attributes ==
    (<<"echo">> :> "identity") @@ (<<"boom">> :> "raises") @@ (<<"nested">> :> "nestedbytes")
        @@ (<<"_", "secret">> :> "private") @@ (<<"_", "_init__">> :> "private")
        @@ (<<"version">> :> "value")

\* attr_name.startswith("_")
StartsWithUnderscore(attr_name) == attr_name # << >> /\ attr_name[1] = "_"

\* callable(attr)
Callable(attr) == attr # "value"

\* get_handler_methods that keeps every callable attribute of the instance
get_handler_methods_AllCallables(attrs) ==
    [attr_name \in { n \in DOMAIN attrs : Callable(attrs[n]) } |-> attrs[attr_name]]

\* BaseUtility/BaseProvider/BaseService.get_handler_methods
get_handler_methods(attrs) ==
    [attr_name \in { n \in DOMAIN attrs : ~StartsWithUnderscore(n) /\ Callable(attrs[n]) }
        |-> attrs[attr_name]]

\* methods = self.get_handler_methods(), computed once in start_ipc_server
Methods == get_handler_methods(Attributes)

Returned(val) == [raised |-> FALSE, val |-> val, called |-> TRUE]
Raised(text, called) == [raised |-> TRUE, val |-> text, called |-> called]

\* method(*args) for each callable of the mapping
Invoke(behaviour, args) ==
    CASE behaviour = "identity" ->
            IF Len(args) = 1 THEN Returned(args[1])
            ELSE Raised(Str("takes 1 positional argument"), TRUE)
      [] behaviour = "raises" -> Raised(Str("boom"), TRUE)
      [] behaviour = "nestedbytes" -> Returned(List(<<Bytes(<<0>>)>>))
      [] behaviour = "private" -> Returned(Str("secret"))

\* handler with the lookup written methods.get(method_name): a name that is
\* no key is not refused
handler_NoLookupCheck(name, method_name, args) ==
    IF method_name.k \in {"list", "dict"}
    THEN Raised(Str("unhashable type"), FALSE)
    ELSE IF method_name.v \notin DOMAIN Methods
    THEN Returned(None)
    ELSE Invoke(Methods[method_name.v], args)

\* BaseModule.start_ipc_server.handler: the closure over methods and self.name
handler(name, method_name, args) ==
    IF method_name.k \in {"list", "dict"}
    THEN Raised(Str("unhashable type"), FALSE)
    ELSE IF method_name.v \notin DOMAIN Methods
    THEN Raised(Text(<<"Metodo '">> \o method_name.v \o <<"' no encontrado en ">> \o name),
                FALSE)
    ELSE Invoke(Methods[method_name.v], args)

(***************************************************************************)
(* IPCServer._process_message (the error texts are the source's, written   *)
(* without their accents)                                                  *)
(***************************************************************************)
\* the loop over message.args without the Buffer branch
DecodeArg_NoBuffer(arg) == [ok |-> TRUE, val |-> arg]

\* One pass of the loop over message.args: the converted argument, or the
\* exception the conversion raises.
DecodeArg(arg) ==
    IF IsTagged(arg)
    THEN IF "data" \notin DOMAIN arg.v
         THEN [ok |-> FALSE, val |-> Str("'data'")]
         ELSE IF arg.v["data"].k # "b64"
         THEN [ok |-> FALSE, val |-> Str("argument should be a bytes-like object or ASCII string")]
         ELSE IF ~B64Valid(arg.v["data"].v)
         THEN [ok |-> FALSE, val |-> Str("Incorrect padding")]
         ELSE [ok |-> TRUE, val |-> Bytes(B64Decode(arg.v["data"].v))]
    ELSE [ok |-> TRUE, val |-> arg]

\* What the try block of _process_message yields: the handler's outcome, or
\* the exception raised before the handler is reached.
TryBody(name, message) ==
    IF message.args.k # "list"
    THEN Raised(Str("object is not iterable"), FALSE)
    ELSE LET dec == [j \in 1..Len(message.args.v) |-> DecodeArg(message.args.v[j])]
         IN IF \E j \in 1..Len(dec) : ~dec[j].ok
            THEN LET j == CHOOSE j \in 1..Len(dec) :
                              ~dec[j].ok /\ \A h \in 1..(j - 1) : dec[h].ok
                 IN Raised(dec[j].val, FALSE)
            ELSE handler(name, message.method, [j \in 1..Len(dec) |-> dec[j].val])

\* _process_message whose except branch drops the fault: result None
ProcessMessage_FaultDropped(name, message) ==
    IF message.type # Str("request")
    THEN [resp |-> IPCMessage(message.id, Str("error"), None, None, None,
                              Str("Tipo de mensaje invalido")),
          called |-> FALSE, raised |-> FALSE]
    ELSE IF ~Truthy(message.method)
    THEN [resp |-> IPCMessage(message.id, Str("error"), None, None, None,
                              Str("Metodo no especificado")),
          called |-> FALSE, raised |-> FALSE]
    ELSE LET r == TryBody(name, message)
         IN [resp |-> IPCMessage(message.id, Str("response"), None, None,
                                 IF r.raised THEN None
                                 ELSE IF r.val.k = "bytes"
                                 THEN TaggedBuffer(B64Str(B64Encode(r.val.v)))
                                 ELSE r.val,
                                 None),
             called |-> r.called, raised |-> r.raised]

\* _process_message without the test of message.type
ProcessMessage_NoTypeCheck(name, message) ==
    IF ~Truthy(message.method)
    THEN [resp |-> IPCMessage(message.id, Str("error"), None, None, None,
                              Str("Metodo no especificado")),
          called |-> FALSE, raised |-> FALSE]
    ELSE LET r == TryBody(name, message)
         IN IF r.raised
            THEN [resp |-> IPCMessage(message.id, Str("error"), None, None, None, r.val),
                  called |-> r.called, raised |-> TRUE]
            ELSE [resp |-> IPCMessage(message.id, Str("response"), None, None,
                                      IF r.val.k = "bytes"
                                      THEN TaggedBuffer(B64Str(B64Encode(r.val.v)))
                                      ELSE r.val,
                                      None),
                  called |-> TRUE, raised |-> FALSE]

\* The reply and whether a method of the mapping was invoked (and how it ended).
ProcessMessage(name, message) ==
    IF message.type # Str("request")
    THEN [resp |-> IPCMessage(message.id, Str("error"), None, None, None,
                              Str("Tipo de mensaje invalido")),
          called |-> FALSE, raised |-> FALSE]
    ELSE IF ~Truthy(message.method)
    THEN [resp |-> IPCMessage(message.id, Str("error"), None, None, None,
                              Str("Metodo no especificado")),
          called |-> FALSE, raised |-> FALSE]
    ELSE LET r == TryBody(name, message)
         IN IF r.raised
            THEN [resp |-> IPCMessage(message.id, Str("error"), None, None, None, r.val),
                  called |-> r.called, raised |-> TRUE]
            ELSE [resp |-> IPCMessage(message.id, Str("response"), None, None,
                                      IF r.val.k = "bytes"
                                      THEN TaggedBuffer(B64Str(B64Encode(r.val.v)))
                                      ELSE r.val,
                                      None),
                  called |-> TRUE, raised |-> FALSE]

(***************************************************************************)
(* The byte stream of a connection.  A character is a newline, a blank, a  *)
(* whole JSON text (standing for the value v it parses to) or text that is *)
(* no JSON.                                                                *)
(***************************************************************************)
NL == [c |-> "nl"]
SP == [c |-> "sp"]
J(val) == [c |-> "json", v |-> val]
Junk == [c |-> "junk"]

\* A JSON text with a character of two bytes, cut between the two bytes:
\* Part(val, 1) ends with the lead byte, Part(val, 2) begins with the
\* continuation byte.  The two together are the text J(val).
Part(val, h) == [c |-> "part", v |-> val, h |-> h]

\* data.decode("utf-8"): the text of the chunk, or UnicodeDecodeError when
\* the chunk begins with a continuation byte or ends inside a character
RECURSIVE Utf8Decode(_)
Utf8Decode(data) ==
    IF Len(data) = 0 THEN [ok |-> TRUE, text |-> << >>]
    ELSE IF data[1].c # "part"
    THEN LET d == Utf8Decode(Tail(data))
         IN [ok |-> d.ok, text |-> <<data[1]>> \o d.text]
    ELSE IF data[1].h = 1 /\ Len(data) >= 2 /\ data[2] = Part(data[1].v, 2)
    THEN LET d == Utf8Decode(SubSeq(data, 3, Len(data)))
         IN [ok |-> d.ok, text |-> <<J(data[1].v)>> \o d.text]
    ELSE [ok |-> FALSE, text |-> << >>]

HasNL(buf) == \E j \in 1..Len(buf) : buf[j] = NL
FirstNL(buf) == CHOOSE j \in 1..Len(buf) : buf[j] = NL /\ \A h \in 1..(j - 1) : buf[h] # NL

LastNL(buf) == CHOOSE j \in 1..Len(buf) : buf[j] = NL /\ \A h \in (j + 1)..Len(buf) : buf[h] # NL

\* the split written buffer.rsplit("\n", 1)
SplitLine_FromRight(buf) ==
    [line |-> SubSeq(buf, 1, LastNL(buf) - 1),
     rest |-> SubSeq(buf, LastNL(buf) + 1, Len(buf))]

\* line, buffer = buffer.split("\n", 1)
SplitLine(buf) ==
    [line |-> SubSeq(buf, 1, FirstNL(buf) - 1),
     rest |-> SubSeq(buf, FirstNL(buf) + 1, Len(buf))]

\* the test written `not line`: only the empty line is dropped
IsBlank_EmptyOnly(line) == line = << >>

\* not line.strip()
IsBlank(line) == \A j \in 1..Len(line) : line[j] = SP

\* IPCMessage.from_dict(json.loads(line)): the message, or the exception
\* (JSONDecodeError for text that is not one JSON value, AttributeError for
\* a JSON value without .get).
Decode(line) ==
    LET toks == SelectSeq(line, LAMBDA ch : ch # SP)
    IN IF Len(toks) # 1 \/ toks[1].c # "json"
       THEN [ok |-> FALSE, why |-> "JSONDecodeError"]
       ELSE IF toks[1].v.k # "dict"
       THEN [ok |-> FALSE, why |-> "AttributeError"]
       ELSE [ok |-> TRUE, msg |-> from_dict(toks[1].v.v)]

\* json.dumps raises TypeError for bytes anywhere in the value
RECURSIVE Serializable(_)
Serializable(val) ==
    CASE val.k = "bytes" -> FALSE
      [] val.k = "list" -> \A j \in 1..Len(val.v) : Serializable(val.v[j])
      [] val.k = "dict" -> \A key \in DOMAIN val.v : Serializable(val.v[key])
      [] OTHER -> TRUE

DictSerializable(d) == \A key \in DOMAIN d : Serializable(d[key])

(***************************************************************************)
(* Module identities and endpoint paths                                    *)
(***************************************************************************)
Identity(name, version) == [name |-> name, version |-> version, language |-> <<"python">>]
Identities == { Identity(<<"a", "/", "b">>, <<"1">>), Identity(<<"c">>, <<"1">>) }

\* module_name.replace("/", "-").replace("\\", "-")
Sanitize(name) == [j \in 1..Len(name) |-> IF name[j] \in {"/", "\\"} THEN "-" ELSE name[j]]

\* IPCServer._get_pipe_path: the path below <tmp>/adc-platform
PipePath(id) == Sanitize(id.name) \o <<"-">> \o id.version \o <<"-">> \o id.language

Paths == { PipePath(id) : id \in Identities }

\* Identities whose names and versions hold '/', '\\' and '-'
PathNames == { <<"a", "/", "b">>, <<"a", "\\", "b">>, <<"a", "-", "b">>, <<"a">> }
PathVersions == { <<"1">>, <<"b", "-", "1">> }
PathIdentities == { Identity(name, version) : name \in PathNames, version \in PathVersions }
AllPaths == { PipePath(id) : id \in PathIdentities }

\* The endpoint file of a path: NoFile, Stale (left by a listener that is
\* gone) or the server instance whose bind created it.
NoFile == 0
Stale == -1

\* _get_pipe_path without the unlink
PrebindUnlink_Skipped(f, path) == f

\* IPCServer._get_pipe_path: try: os.unlink(pipe_path) except OSError: pass
PrebindUnlink(f, path) == [f EXCEPT ![path] = NoFile]

\* IPCServer.stop: if os.path.exists(self.pipe_path): os.unlink(self.pipe_path)
StopUnlinkFile(f, path) == IF f[path] # NoFile THEN [f EXCEPT ![path] = NoFile] ELSE f

\* socket.listen(5) and client_socket.recv(4096)
Backlog == 5
RecvSize == 4096

(***************************************************************************)
(* What the peers send: each unit is one line with its newline.            *)
(***************************************************************************)
Request(id, method, args) ==
    J(Dict([id |-> Str(id), type |-> Str("request"), method |-> Str(method),
            args |-> List(args)]))

ReqEcho == Request("1", "echo", <<Str("hi")>>)
ReqNoop == Request("2", "noop", << >>)
ReqBoom == Request("3", "boom", << >>)
ReqNested == Request("4", "nested", << >>)
NonObject == J(List(<<Num(1)>>))
NotRequest == J(Dict([id |-> Str("5"), type |-> Str("response"), result |-> Str("x")]))
NoMethod == J(Dict([id |-> Str("6"), type |-> Str("request")]))
ReqBuffer(bs) == Request("7", "echo", <<TaggedBuffer(B64Str(B64Encode(bs)))>>)

Payloads == { ReqEcho, ReqNoop, ReqBoom, ReqNested, Junk, NonObject, NotRequest, NoMethod }
Units == { <<x, NL>> : x \in Payloads } \cup { <<SP, NL>> }

RECURSIVE SeqsUpTo(_, _)
SeqsUpTo(S, n) ==
    IF n = 0 THEN { << >> }
    ELSE LET shorter == SeqsUpTo(S, n - 1)
         IN shorter \cup { Append(q, x) : q \in shorter, x \in S }

ByteSeqs == SeqsUpTo(ByteVals, MaxBytes)
BufferUnits == { <<ReqBuffer(bs), NL>> : bs \in ByteSeqs }

\* A request with no arguments for every attribute name of the instance
ReqAttr(attr_name) ==
    J(Dict([id |-> Str("11"), type |-> Str("request"), method |-> Text(attr_name),
            args |-> List(<< >>)]))
AttrUnits == { <<ReqAttr(n), NL>> : n \in DOMAIN Attributes } \cup { <<ReqEcho, NL>> }

\* Messages as a peer builds them with IPCMessage(...): every kind, over small
\* sets of ids, methods, argument lists, results and error texts.
MsgKinds == { Str("request"), Str("response"), Str("error") }
MsgIds == { Str("8"), Num(9) }
MsgMethods == { None, Str(""), Str("echo"), Str("noop") }
MsgArgs == { None, List(<< >>), List(<<Str("hi")>>) }
MsgResults == { None, Str("r") }
MsgErrors == { None, Str("e") }

Messages ==
    { IPCMessage(id, kind, method, args, result, error) :
        id \in MsgIds, kind \in MsgKinds, method \in MsgMethods, args \in MsgArgs,
        result \in MsgResults, error \in MsgErrors }

\* The line a peer writes for a message: json.dumps(message.to_dict()) + "\n"
MsgUnit(m) == << J(Dict(to_dict(m))), NL >>

\* An echo request whose argument holds a character of two bytes (U+00E9),
\* written as the two parts around the cut inside that character.
ReqWideValue ==
    Dict([id |-> Str("10"), type |-> Str("request"), method |-> Str("echo"),
          args |-> List(<<Text(<<"U+00E9">>)>>)])
WideUnit == << Part(ReqWideValue, 1), Part(ReqWideValue, 2), NL >>

MsgUnits == { MsgUnit(m) : m \in Messages } \cup { <<NotRequest, NL>>, <<NoMethod, NL>> }

SessionUnits == { <<ReqEcho, NL>>, <<Junk, NL>>, WideUnit }

\* Lines that are empty or hold only whitespace
BlankUnits == { <<NL>>, <<SP, NL>> }

\* The number of blank lines among the complete lines of the bytes
RECURSIVE BlankCount(_)
BlankCount(bytes) ==
    IF ~HasNL(bytes) THEN 0
    ELSE (IF IsBlank(SubSeq(bytes, 1, FirstNL(bytes) - 1)) THEN 1 ELSE 0)
            + BlankCount(SubSeq(bytes, FirstNL(bytes) + 1, Len(bytes)))

(***************************************************************************)
(* State                                                                   *)
(***************************************************************************)
VARIABLES
    file,        \* path -> NoFile, Stale or the instance whose bind made it
    pc,          \* instance -> where it is: none, init, accept, recv, lines,
                 \*   send, closing, unlink, done
    ident,       \* instance -> (module_name, module_version, language)
    hset,        \* instance -> self.handler is set
    sock,        \* instance -> self.socket: none, unbound, bound, listening
    err,         \* instance -> what start() raised to its caller
    found,       \* instance -> what __init__ found at its path (history)
    startup,     \* instance -> the module's startup step: na (Utility and
                 \*   Provider have none), notrun, ok, failed
    nfail,       \* instance -> times the accept loop's except Exception ran
    backlog,     \* instance -> connections waiting in the listen queue
    cur,         \* instance -> the connection _handle_client serves, or 0
    buffer,      \* instance -> buffer of _handle_client
    resp,        \* instance -> response of _process_message, not yet written
    conn,        \* connection -> idle, pending, open, closed
    srv,         \* connection -> the instance it connected to, or 0
    inflight,    \* connection -> what the peer sent and recv has not returned
    peerClosed,  \* connection -> the peer closed its end
    sent,        \* connection -> everything the peer has sent so far
    trace,       \* connection -> lines taken, methods invoked, replies written
    nsent        \* lines sent by all peers

vars == << file, pc, ident, hset, sock, err, found, startup, nfail, backlog, cur,
           buffer, resp, conn, srv, inflight, peerClosed, sent, trace, nsent >>

serverVars == << pc, ident, hset, sock, err, found, startup, nfail, cur, buffer, resp >>
sessionVars == << cur, buffer, resp >>
clientVars == << conn, srv, inflight, peerClosed, sent, trace, nsent >>

NoResp == [k |-> "null"]

Init ==
    /\ file = [p \in Paths |-> NoFile]
    /\ pc = [i \in Servers |-> "none"]
    /\ ident = [i \in Servers |-> Identity(<<"c">>, <<"1">>)]
    /\ hset = [i \in Servers |-> FALSE]
    /\ sock = [i \in Servers |-> "none"]
    /\ err = [i \in Servers |-> "none"]
    /\ found = [i \in Servers |-> NoFile]
    /\ startup = [i \in Servers |-> "na"]
    /\ nfail = [i \in Servers |-> 0]
    /\ backlog = [i \in Servers |-> << >>]
    /\ cur = [i \in Servers |-> 0]
    /\ buffer = [i \in Servers |-> << >>]
    /\ resp = [i \in Servers |-> NoResp]
    /\ conn = [c \in Clients |-> "idle"]
    /\ srv = [c \in Clients |-> 0]
    /\ inflight = [c \in Clients |-> << >>]
    /\ peerClosed = [c \in Clients |-> FALSE]
    /\ sent = [c \in Clients |-> << >>]
    /\ trace = [c \in Clients |-> << >>]
    /\ nsent = 0

\* The modules are of the Service variant: their startup step has not run
InitService ==
    /\ file = [p \in Paths |-> NoFile]
    /\ pc = [i \in Servers |-> "none"]
    /\ ident = [i \in Servers |-> Identity(<<"c">>, <<"1">>)]
    /\ hset = [i \in Servers |-> FALSE]
    /\ sock = [i \in Servers |-> "none"]
    /\ err = [i \in Servers |-> "none"]
    /\ found = [i \in Servers |-> NoFile]
    /\ startup = [i \in Servers |-> "notrun"]
    /\ nfail = [i \in Servers |-> 0]
    /\ backlog = [i \in Servers |-> << >>]
    /\ cur = [i \in Servers |-> 0]
    /\ buffer = [i \in Servers |-> << >>]
    /\ resp = [i \in Servers |-> NoResp]
    /\ conn = [c \in Clients |-> "idle"]
    /\ srv = [c \in Clients |-> 0]
    /\ inflight = [c \in Clients |-> << >>]
    /\ peerClosed = [c \in Clients |-> FALSE]
    /\ sent = [c \in Clients |-> << >>]
    /\ trace = [c \in Clients |-> << >>]
    /\ nsent = 0

\* No module runs; the endpoint paths are those of PathIdentities
InitPath ==
    /\ file = [p \in AllPaths |-> NoFile]
    /\ pc = [i \in Servers |-> "none"]
    /\ ident = [i \in Servers |-> Identity(<<"a">>, <<"1">>)]
    /\ hset = [i \in Servers |-> FALSE]
    /\ sock = [i \in Servers |-> "none"]
    /\ err = [i \in Servers |-> "none"]
    /\ found = [i \in Servers |-> NoFile]
    /\ startup = [i \in Servers |-> "na"]
    /\ nfail = [i \in Servers |-> 0]
    /\ backlog = [i \in Servers |-> << >>]
    /\ cur = [i \in Servers |-> 0]
    /\ buffer = [i \in Servers |-> << >>]
    /\ resp = [i \in Servers |-> NoResp]
    /\ conn = [c \in Clients |-> "idle"]
    /\ srv = [c \in Clients |-> 0]
    /\ inflight = [c \in Clients |-> << >>]
    /\ peerClosed = [c \in Clients |-> FALSE]
    /\ sent = [c \in Clients |-> << >>]
    /\ trace = [c \in Clients |-> << >>]
    /\ nsent = 0

(***************************************************************************)
(* Helpers of the actions                                                  *)
(***************************************************************************)
Closed(cs) == [c \in Clients |-> IF c \in cs THEN "closed" ELSE conn[c]]
Range(q) == { q[j] : j \in 1..Len(q) }
Min(a, b) == IF a < b THEN a ELSE b

\* Where _handle_client goes on: the inner while loop, or the next recv
AfterLine(buf) == IF HasNL(buf) THEN "lines" ELSE "recv"

LineEvent(line) == [ev |-> "line", line |-> line]
CallEvent(message, raised) == [ev |-> "call", method |-> message.method,
                               args |-> [j \in 1..Len(message.args.v) |->
                                            DecodeArg(message.args.v[j]).val],
                               raised |-> raised]
LogEvent(what) == [ev |-> "log", what |-> what]
ReplyEvent(d) == [ev |-> "reply", msg |-> d]

(***************************************************************************)
(* IPCServer.__init__ (with _get_pipe_path), set_handler                   *)
(***************************************************************************)
Construct(i, id) ==
    /\ pc[i] = "none"
    /\ pc' = [pc EXCEPT ![i] = "init"]
    /\ ident' = [ident EXCEPT ![i] = id]
    /\ hset' = [hset EXCEPT ![i] = FALSE]
    /\ sock' = [sock EXCEPT ![i] = "none"]
    /\ err' = [err EXCEPT ![i] = "none"]
    /\ found' = [found EXCEPT ![i] = file[PipePath(id)]]
    /\ file' = PrebindUnlink(file, PipePath(id))
    /\ UNCHANGED << startup, nfail, backlog, sessionVars, clientVars >>

SetHandler(i) ==
    /\ pc[i] = "init"
    /\ ~hset[i]
    /\ hset' = [hset EXCEPT ![i] = TRUE]
    /\ UNCHANGED << file, pc, ident, sock, err, found, startup, nfail, backlog, sessionVars, clientVars >>

(***************************************************************************)
(* IPCServer.start up to the accept loop                                   *)
(***************************************************************************)
\* socket.bind(self.pipe_path): EADDRINUSE when the path exists
BindSucceeds(f, path) == f[path] = NoFile

Start(i) ==
    /\ pc[i] = "init"
    /\ IF ~hset[i]
       THEN /\ pc' = [pc EXCEPT ![i] = "done"]
            /\ err' = [err EXCEPT ![i] = "RuntimeError"]
            /\ UNCHANGED << file, sock >>
       ELSE IF BindSucceeds(file, PipePath(ident[i]))
       THEN /\ file' = [file EXCEPT ![PipePath(ident[i])] = i]
            /\ sock' = [sock EXCEPT ![i] = "listening"]
            /\ pc' = [pc EXCEPT ![i] = "accept"]
            /\ UNCHANGED err
       ELSE /\ sock' = [sock EXCEPT ![i] = "unbound"]
            /\ err' = [err EXCEPT ![i] = "OSError"]
            /\ pc' = [pc EXCEPT ![i] = "closing"]
            /\ UNCHANGED file
    /\ UNCHANGED << ident, hset, found, startup, nfail, backlog, sessionVars, clientVars >>

\* BaseService.start awaited by the caller of the module before it runs
\* start_ipc_server: the step completes or raises
AwaitStart(i) ==
    /\ pc[i] = "none"
    /\ startup[i] = "notrun"
    /\ \E outcome \in {"ok", "failed"} : startup' = [startup EXCEPT ![i] = outcome]
    /\ UNCHANGED << file, pc, ident, hset, sock, err, found, nfail, backlog, sessionVars,
                    clientVars >>

\* start() where bind succeeds and self.socket.listen(5) raises: the except
\* at the end of start() re-raises and finally runs stop()
StartListenFails(i) ==
    /\ pc[i] = "init"
    /\ hset[i]
    /\ BindSucceeds(file, PipePath(ident[i]))
    /\ file' = [file EXCEPT ![PipePath(ident[i])] = i]
    /\ sock' = [sock EXCEPT ![i] = "bound"]
    /\ err' = [err EXCEPT ![i] = "OSError"]
    /\ pc' = [pc EXCEPT ![i] = "closing"]
    /\ UNCHANGED << ident, hset, found, startup, nfail, backlog, sessionVars, clientVars >>

\* self.socket.accept() raises an Exception because the listening socket is
\* gone (self.socket is None after stop()): the except prints and the while
\* loop goes round again
AcceptFails(i) ==
    /\ pc[i] = "accept"
    /\ sock[i] # "listening"
    /\ nfail[i] < MaxAcceptErrors
    /\ nfail' = [nfail EXCEPT ![i] = @ + 1]
    /\ UNCHANGED << file, pc, ident, hset, sock, err, found, startup, backlog, sessionVars,
                    clientVars >>

\* client_socket, _ = self.socket.accept(); self._handle_client(client_socket)
Accept(i) ==
    /\ pc[i] = "accept"
    /\ sock[i] = "listening"
    /\ backlog[i] # << >>
    /\ LET c == Head(backlog[i])
       IN /\ backlog' = [backlog EXCEPT ![i] = Tail(backlog[i])]
          /\ conn' = [conn EXCEPT ![c] = "open"]
          /\ cur' = [cur EXCEPT ![i] = c]
    /\ buffer' = [buffer EXCEPT ![i] = << >>]
    /\ pc' = [pc EXCEPT ![i] = "recv"]
    /\ UNCHANGED << file, ident, hset, sock, err, found, startup, nfail, resp, srv, inflight, peerClosed,
                    sent, trace, nsent >>

(***************************************************************************)
(* IPCServer._handle_client                                                *)
(***************************************************************************)
\* data = client_socket.recv(4096): some bytes, or b"" once the peer closed;
\* buffer += data.decode("utf-8"), whose UnicodeDecodeError reaches the outer
\* except and ends the session
Recv(i) ==
    /\ pc[i] = "recv"
    /\ LET c == cur[i]
       IN \/ /\ inflight[c] # << >>
             /\ \E n \in 1..Min(Len(inflight[c]), RecvSize) :
                   LET d == Utf8Decode(SubSeq(inflight[c], 1, n))
                   IN /\ inflight' = [inflight EXCEPT ![c] = SubSeq(@, n + 1, Len(@))]
                      /\ IF d.ok
                         THEN /\ buffer' = [buffer EXCEPT ![i] = @ \o d.text]
                              /\ pc' = [pc EXCEPT ![i] = AfterLine(buffer'[i])]
                              /\ UNCHANGED << cur, conn, trace >>
                         ELSE /\ trace' = [trace EXCEPT
                                              ![c] = Append(@, LogEvent("UnicodeDecodeError"))]
                              /\ conn' = Closed({c})
                              /\ cur' = [cur EXCEPT ![i] = 0]
                              /\ buffer' = [buffer EXCEPT ![i] = << >>]
                              /\ pc' = [pc EXCEPT ![i] = "accept"]
          \/ /\ inflight[c] = << >>
             /\ peerClosed[c]
             /\ conn' = Closed({c})
             /\ cur' = [cur EXCEPT ![i] = 0]
             /\ buffer' = [buffer EXCEPT ![i] = << >>]
             /\ pc' = [pc EXCEPT ![i] = "accept"]
             /\ UNCHANGED << inflight, trace >>
    /\ UNCHANGED << file, ident, hset, sock, err, found, startup, nfail, backlog, resp, srv,
                    peerClosed, sent, nsent >>

\* One pass of `while "\n" in buffer` up to the response of _process_message
Line(i) ==
    /\ pc[i] = "lines"
    /\ LET c == cur[i]
           s == SplitLine(buffer[i])
           d == Decode(s.line)
       IN /\ buffer' = [buffer EXCEPT ![i] = s.rest]
          /\ IF IsBlank(s.line)
             THEN /\ pc' = [pc EXCEPT ![i] = AfterLine(s.rest)]
                  /\ UNCHANGED << resp, trace >>
             ELSE IF ~d.ok
             THEN /\ pc' = [pc EXCEPT ![i] = AfterLine(s.rest)]
                  /\ trace' = [trace EXCEPT ![c] = @ \o <<LineEvent(s.line), LogEvent(d.why)>>]
                  /\ UNCHANGED resp
             ELSE LET r == ProcessMessage(ident[i].name, d.msg)
                  IN /\ pc' = [pc EXCEPT ![i] = "send"]
                     /\ resp' = [resp EXCEPT ![i] = r.resp]
                     /\ trace' = [trace EXCEPT ![c] = @ \o <<LineEvent(s.line)>> \o
                                     IF r.called THEN <<CallEvent(d.msg, r.raised)>>
                                     ELSE << >>]
    /\ UNCHANGED << file, ident, hset, sock, err, found, startup, nfail, backlog, cur, conn, srv, inflight,
                    peerClosed, sent, nsent >>

\* client_socket.sendall((json.dumps(response.to_dict()) + "\n").encode("utf-8"))
Send(i) ==
    /\ pc[i] = "send"
    /\ LET c == cur[i]
           d == to_dict(resp[i])
       IN IF ~DictSerializable(d)
          THEN trace' = [trace EXCEPT ![c] = Append(@, LogEvent("TypeError"))]
          ELSE IF peerClosed[c]
          THEN \/ trace' = [trace EXCEPT ![c] = Append(@, LogEvent("BrokenPipeError"))]
               \/ UNCHANGED trace
          ELSE trace' = [trace EXCEPT ![c] = Append(@, ReplyEvent(d))]
    /\ resp' = [resp EXCEPT ![i] = NoResp]
    /\ pc' = [pc EXCEPT ![i] = AfterLine(buffer[i])]
    /\ UNCHANGED << file, ident, hset, sock, err, found, startup, nfail, backlog, cur, buffer, conn, srv,
                    inflight, peerClosed, sent, nsent >>

(***************************************************************************)
(* Leaving the accept loop, and IPCServer.stop                             *)
(***************************************************************************)
\* KeyboardInterrupt in accept or in _handle_client (whose finally closes the
\* client socket): break, then finally: self.stop()
Interrupt(i) ==
    /\ pc[i] \in {"accept", "recv", "lines", "send"}
    /\ conn' = Closed({cur[i]} \ {0})
    /\ cur' = [cur EXCEPT ![i] = 0]
    /\ buffer' = [buffer EXCEPT ![i] = << >>]
    /\ resp' = [resp EXCEPT ![i] = NoResp]
    /\ pc' = [pc EXCEPT ![i] = "closing"]
    /\ UNCHANGED << file, ident, hset, sock, err, found, startup, nfail, backlog, srv, inflight, peerClosed,
                    sent, trace, nsent >>

\* stop() that goes on to the endpoint file with the socket left open
StopClose_SocketKept(i) ==
    /\ pc[i] = "closing"
    /\ pc' = [pc EXCEPT ![i] = "unlink"]
    /\ UNCHANGED << file, ident, hset, sock, err, found, startup, nfail, backlog, sessionVars,
                    clientVars >>

\* stop(): if self.socket: self.socket.close(); self.socket = None
StopClose(i) ==
    /\ pc[i] = "closing"
    /\ sock' = [sock EXCEPT ![i] = "none"]
    /\ conn' = Closed(Range(backlog[i]))
    /\ backlog' = [backlog EXCEPT ![i] = << >>]
    /\ pc' = [pc EXCEPT ![i] = "unlink"]
    /\ UNCHANGED << file, ident, hset, err, found, startup, nfail, sessionVars, srv, inflight, peerClosed,
                    sent, trace, nsent >>

\* stop(): the endpoint file is unlinked if it exists; start() returns or raises
StopUnlink(i) ==
    /\ pc[i] = "unlink"
    /\ file' = StopUnlinkFile(file, PipePath(ident[i]))
    /\ pc' = [pc EXCEPT ![i] = "done"]
    /\ UNCHANGED << ident, hset, sock, err, found, startup, nfail, backlog, sessionVars, clientVars >>

\* stop() called on an instance whose start() is not running
StopCall(i) ==
    /\ pc[i] \in {"init", "done"}
    /\ sock' = [sock EXCEPT ![i] = "none"]
    /\ file' = StopUnlinkFile(file, PipePath(ident[i]))
    /\ UNCHANGED << pc, ident, hset, err, found, startup, nfail, backlog, sessionVars, clientVars >>

\* stop() called from outside while start() is in its loop (in accept or in
\* a session): the listening socket is closed and the endpoint file unlinked
StopRequest(i) ==
    /\ pc[i] \in {"accept", "recv", "lines", "send"}
    /\ sock[i] = "listening"
    /\ sock' = [sock EXCEPT ![i] = "none"]
    /\ conn' = Closed(Range(backlog[i]))
    /\ backlog' = [backlog EXCEPT ![i] = << >>]
    /\ file' = StopUnlinkFile(file, PipePath(ident[i]))
    /\ UNCHANGED << pc, ident, hset, err, found, startup, nfail, sessionVars, srv, inflight,
                    peerClosed, sent, trace, nsent >>

\* The worker process is killed: no teardown runs, the kernel closes its
\* sockets and the endpoint file stays on disk.
Kill(i) ==
    /\ sock[i] = "listening"
    /\ pc' = [pc EXCEPT ![i] = "none"]
    /\ sock' = [sock EXCEPT ![i] = "none"]
    /\ hset' = [hset EXCEPT ![i] = FALSE]
    /\ file' = [p \in Paths |-> IF file[p] = i THEN Stale ELSE file[p]]
    /\ conn' = Closed((Range(backlog[i]) \cup {cur[i]}) \ {0})
    /\ backlog' = [backlog EXCEPT ![i] = << >>]
    /\ cur' = [cur EXCEPT ![i] = 0]
    /\ buffer' = [buffer EXCEPT ![i] = << >>]
    /\ resp' = [resp EXCEPT ![i] = NoResp]
    /\ found' = [found EXCEPT ![i] = NoFile]
    /\ UNCHANGED << ident, err, startup, nfail, srv, inflight, peerClosed, sent, trace, nsent >>

\* The worker process ends after start() has returned or raised.
Exit(i) ==
    /\ pc[i] = "done"
    /\ pc' = [pc EXCEPT ![i] = "none"]
    /\ hset' = [hset EXCEPT ![i] = FALSE]
    /\ err' = [err EXCEPT ![i] = "none"]
    /\ found' = [found EXCEPT ![i] = NoFile]
    /\ UNCHANGED << file, ident, sock, startup, nfail, backlog, sessionVars, clientVars >>

(***************************************************************************)
(* The peers                                                               *)
(***************************************************************************)
\* connect(path): reaches the listener whose bind created the file at path
Connect(c, path) ==
    /\ conn[c] = "idle"
    /\ file[path] \in Servers
    /\ LET i == file[path]
       IN /\ sock[i] = "listening"
          /\ Len(backlog[i]) < Backlog
          /\ backlog' = [backlog EXCEPT ![i] = Append(@, c)]
          /\ srv' = [srv EXCEPT ![c] = i]
    /\ conn' = [conn EXCEPT ![c] = "pending"]
    /\ UNCHANGED << file, serverVars, inflight, peerClosed, sent, trace, nsent >>

PeerSend(c, unit) ==
    /\ conn[c] \in {"pending", "open"}
    /\ ~peerClosed[c]
    /\ nsent < MaxLines
    /\ inflight' = [inflight EXCEPT ![c] = @ \o unit]
    /\ sent' = [sent EXCEPT ![c] = @ \o unit]
    /\ nsent' = nsent + 1
    /\ UNCHANGED << file, serverVars, backlog, conn, srv, peerClosed, trace >>

PeerClose(c) ==
    /\ conn[c] \in {"pending", "open"}
    /\ ~peerClosed[c]
    /\ peerClosed' = [peerClosed EXCEPT ![c] = TRUE]
    /\ UNCHANGED << file, serverVars, backlog, conn, srv, inflight, sent, trace, nsent >>

\* The peer sends a line that is empty or holds only whitespace
PeerSendBlank(c, unit) ==
    /\ conn[c] \in {"pending", "open"}
    /\ ~peerClosed[c]
    /\ BlankCount(sent[c]) < MaxBlanks
    /\ inflight' = [inflight EXCEPT ![c] = @ \o unit]
    /\ sent' = [sent EXCEPT ![c] = @ \o unit]
    /\ UNCHANGED << file, serverVars, backlog, conn, srv, peerClosed, trace, nsent >>

(***************************************************************************)
(* Specifications                                                          *)
(*   Spec     one worker and two peers: peer 1 sends every kind of line,   *)
(*            peer 2 sends echo requests                                   *)
(*   SpecLife two workers over two identities: construction, start, stop,  *)
(*            kill and restart, with one peer sending one echo request     *)
(*   SpecBuf  one worker, one peer sending one request whose argument is a *)
(*            tagged buffer                                                *)
(*   SpecService two workers of the Service variant on one identity: the  *)
(*            startup step, start with a fault of listen, stop requested   *)
(*            from outside, faults of accept, interrupt and teardown       *)
(*   SpecPath two workers over identities whose names and versions hold    *)
(*            separators and hyphens: construction, start and teardown     *)
(*   SpecHandlers one worker, one peer sending requests that name the      *)
(*            attributes of the instance, private ones included            *)
(*   SpecMsg  one worker, one peer: the first line is the encoding of any  *)
(*            message, later lines are echo requests                       *)
(*   SpecSession one worker, one peer sending requests, a malformed line,  *)
(*            a request with a two-byte character and blank lines, read in *)
(*            chunks of every size                                         *)
(***************************************************************************)
ServerStep(i) == Accept(i) \/ Recv(i) \/ Line(i) \/ Send(i)

TheIdentity == Identity(<<"c">>, <<"1">>)
ThePath == PipePath(TheIdentity)

Next ==
    \/ Construct(1, TheIdentity)
    \/ SetHandler(1)
    \/ Start(1)
    \/ Accept(1)
    \/ Recv(1)
    \/ Line(1)
    \/ Send(1)
    \/ Interrupt(1)
    \/ StopClose(1)
    \/ StopUnlink(1)
    \/ \E c \in Clients : Connect(c, ThePath)
    \/ \E unit \in Units : PeerSend(1, unit)
    \/ PeerSend(2, <<ReqEcho, NL>>)
    \/ \E c \in Clients : PeerClose(c)

Spec == Init /\ [][Next]_vars

NextLife ==
    \/ \E i \in Servers, id \in Identities : Construct(i, id)
    \/ \E i \in Servers : SetHandler(i)
    \/ \E i \in Servers : Start(i)
    \/ \E i \in Servers : Accept(i)
    \/ \E i \in Servers : Recv(i)
    \/ \E i \in Servers : Line(i)
    \/ \E i \in Servers : Send(i)
    \/ \E i \in Servers : Interrupt(i)
    \/ \E i \in Servers : StopClose(i)
    \/ \E i \in Servers : StopUnlink(i)
    \/ \E i \in Servers : StopCall(i)
    \/ \E i \in Servers : Kill(i)
    \/ \E i \in Servers : Exit(i)
    \/ \E path \in Paths : Connect(1, path)
    \/ nsent = 0 /\ PeerSend(1, <<ReqEcho, NL>>)
    \/ PeerClose(1)

SpecLife == Init /\ [][NextLife]_vars

NextBuf ==
    \/ Construct(1, TheIdentity)
    \/ SetHandler(1)
    \/ Start(1)
    \/ Accept(1)
    \/ Recv(1)
    \/ Line(1)
    \/ Send(1)
    \/ Connect(1, ThePath)
    \/ \E unit \in BufferUnits : nsent = 0 /\ PeerSend(1, unit)
    \/ PeerClose(1)

SpecBuf == Init /\ [][NextBuf]_vars

NextService ==
    \/ \E i \in Servers : AwaitStart(i)
    \/ \E i \in Servers : Construct(i, TheIdentity)
    \/ \E i \in Servers : SetHandler(i)
    \/ \E i \in Servers : Start(i)
    \/ \E i \in Servers : StartListenFails(i)
    \/ \E i \in Servers : Accept(i)
    \/ \E i \in Servers : AcceptFails(i)
    \/ \E i \in Servers : Recv(i)
    \/ \E i \in Servers : Line(i)
    \/ \E i \in Servers : Send(i)
    \/ \E i \in Servers : StopRequest(i)
    \/ \E i \in Servers : Interrupt(i)
    \/ \E i \in Servers : StopClose(i)
    \/ \E i \in Servers : StopUnlink(i)
    \/ Connect(1, ThePath)
    \/ nsent = 0 /\ PeerSend(1, <<ReqEcho, NL>>)
    \/ PeerClose(1)

SpecService == InitService /\ [][NextService]_vars

NextPath ==
    \/ \E i \in Servers, id \in PathIdentities : Construct(i, id)
    \/ \E i \in Servers : SetHandler(i)
    \/ \E i \in Servers : Start(i)
    \/ \E i \in Servers : Interrupt(i)
    \/ \E i \in Servers : StopClose(i)
    \/ \E i \in Servers : StopUnlink(i)
    \/ \E i \in Servers : Exit(i)

SpecPath == InitPath /\ [][NextPath]_vars

NextHandlers ==
    \/ Construct(1, TheIdentity)
    \/ SetHandler(1)
    \/ Start(1)
    \/ Accept(1)
    \/ Recv(1)
    \/ Line(1)
    \/ Send(1)
    \/ Connect(1, ThePath)
    \/ \E unit \in AttrUnits : PeerSend(1, unit)
    \/ PeerClose(1)

SpecHandlers == Init /\ [][NextHandlers]_vars

NextMsg ==
    \/ Construct(1, TheIdentity)
    \/ SetHandler(1)
    \/ Start(1)
    \/ Accept(1)
    \/ Recv(1)
    \/ Line(1)
    \/ Send(1)
    \/ Connect(1, ThePath)
    \/ nsent = 0 /\ \E unit \in MsgUnits : PeerSend(1, unit)
    \/ nsent > 0 /\ PeerSend(1, <<ReqEcho, NL>>)
    \/ PeerClose(1)

SpecMsg == Init /\ [][NextMsg]_vars

NextSession ==
    \/ Construct(1, TheIdentity)
    \/ SetHandler(1)
    \/ Start(1)
    \/ Accept(1)
    \/ Recv(1)
    \/ Line(1)
    \/ Send(1)
    \/ Connect(1, ThePath)
    \/ \E unit \in SessionUnits : PeerSend(1, unit)
    \/ \E unit \in BlankUnits : PeerSendBlank(1, unit)
    \/ PeerClose(1)

SpecSession == Init /\ [][NextSession]_vars

(***************************************************************************)
(* Reading a connection's trace                                            *)
(***************************************************************************)
IsLine(t, k) == t[k].ev = "line"
IsReply(t, k) == t[k].ev = "reply"
IsCall(t, k) == t[k].ev = "call"

\* The events that follow line event k up to the next line event
Segment(t, k) ==
    { j \in (k + 1)..Len(t) : \A h \in (k + 1)..j : ~IsLine(t, h) }

RepliesTo(t, k) == { j \in Segment(t, k) : IsReply(t, j) }
CallsFor(t, k) == { j \in Segment(t, k) : IsCall(t, j) }

\* The response for the last line taken from c has not been written yet
ReplyPending(c) == \E i \in Servers : cur[i] = c /\ pc[i] = "send"

\* Line event k of connection c has been dealt with, and its peer is there
Settled(c, k) ==
    /\ conn[c] = "open"
    /\ ~peerClosed[c]
    /\ ~(ReplyPending(c) /\ \A j \in (k + 1)..Len(trace[c]) : ~IsLine(trace[c], j))

\* The text has sub as a contiguous part
Contains(text, sub) ==
    \E a \in 0..(Len(text) - Len(sub)) : SubSeq(text, a + 1, a + Len(sub)) = sub

\* The first complete line of the bytes decodes to a request
HasRequestLine(bytes) ==
    /\ HasNL(bytes)
    /\ Decode(SplitLine(bytes).line).ok
    /\ Decode(SplitLine(bytes).line).msg.type = Str("request")

(***************************************************************************)
(* C1: every received non-blank line that is not a well-formed message     *)
(* object (invalid JSON, or JSON that is no object) is answered with       *)
(* exactly one message of kind error.                                      *)
(***************************************************************************)
C1_MalformedLineAnswered ==
    \A c \in Clients : \A k \in 1..Len(trace[c]) :
        (IsLine(trace[c], k) /\ ~Decode(trace[c][k].line).ok /\ Settled(c, k))
            => /\ Cardinality(RepliesTo(trace[c], k)) = 1
               /\ \A j \in RepliesTo(trace[c], k) : trace[c][j].msg.type = Str("error")

(***************************************************************************)
(* C2: while the session of connection A is blocked waiting for bytes (A   *)
(* neither sends nor closes), a connection B that has sent a complete      *)
(* request line is not made to wait for A: the worker can take a step.     *)
(***************************************************************************)
C2_SecondPeerNotBlocked ==
    \A i \in Servers : \A a, b \in Clients :
        ( /\ a # b
          /\ cur[i] = a /\ pc[i] = "recv"
          /\ inflight[a] = << >> /\ ~peerClosed[a]
          /\ b \in Range(backlog[i]) /\ HasRequestLine(inflight[b]) )
            => ENABLED ServerStep(i)

(***************************************************************************)
(* C3: the endpoint file made by an instance's bind is removed only by     *)
(* that instance, in the unlink of its own teardown.                       *)
(***************************************************************************)
C3_FileRemovedOnlyByOwner ==
    [][ \A p \in Paths :
          (file[p] \in Servers /\ file'[p] # file[p] /\ file'[p] # Stale)
              => (pc[file[p]] = "unlink" /\ pc'[file[p]] = "done") ]_vars

(***************************************************************************)
(* C4: every line that decodes to a request gets exactly one reply with    *)
(* the request's id: a response when the handler returned, an error for    *)
(* any fault, a fault in encoding the return value included.               *)
(***************************************************************************)
C4_EveryRequestAnswered ==
    \A c \in Clients : \A k \in 1..Len(trace[c]) :
        LET t == trace[c]
            d == Decode(t[k].line)
        IN (IsLine(t, k) /\ d.ok /\ d.msg.type = Str("request") /\ Settled(c, k))
            => /\ Cardinality(RepliesTo(t, k)) = 1
               /\ \A j \in RepliesTo(t, k) :
                     /\ t[j].msg.id = d.msg.id
                     /\ t[j].msg.type \in {Str("response"), Str("error")}
                     /\ t[j].msg.type = Str("response")
                            => \E h \in CallsFor(t, k) : ~t[h].raised

(***************************************************************************)
(* C5: a request for a method that is no key of the handler mapping gets   *)
(* one error reply with its id whose text contains the method name; no     *)
(* method is invoked, the connection stays open until the peer closes or   *)
(* the worker is interrupted, and a later echo request is answered.        *)
(***************************************************************************)
UnknownMethod(line) ==
    LET d == Decode(line)
    IN /\ d.ok
       /\ d.msg.type = Str("request")
       /\ d.msg.method.k = "str"
       /\ Truthy(d.msg.method)
       /\ d.msg.method.v \notin DOMAIN Methods

\* The session of c ended only because the peer closed or the worker stopped
EndedByPeerOrStop(c) ==
    conn[c] = "closed" =>
        peerClosed[c] \/ pc[srv[c]] \notin {"accept", "recv", "lines", "send"}

EchoAnswered(t, k) ==
    /\ Cardinality(RepliesTo(t, k)) = 1
    /\ \A j \in RepliesTo(t, k) :
          /\ t[j].msg.type = Str("response")
          /\ t[j].msg.id = Str("1")
          /\ t[j].msg.result = Str("hi")

C5_UnknownMethod ==
    \A c \in Clients : \A k \in 1..Len(trace[c]) :
        LET t == trace[c]
            d == Decode(t[k].line)
        IN (IsLine(t, k) /\ UnknownMethod(t[k].line))
            => /\ CallsFor(t, k) = {}
               /\ Cardinality(RepliesTo(t, k)) <= 1
               /\ Settled(c, k) => Cardinality(RepliesTo(t, k)) = 1
               /\ \A j \in RepliesTo(t, k) :
                     /\ t[j].msg.type = Str("error")
                     /\ t[j].msg.id = d.msg.id
                     /\ t[j].msg.error.k = "str"
                     /\ Contains(t[j].msg.error.v, d.msg.method.v)
               /\ EndedByPeerOrStop(c)
               /\ \A k2 \in (k + 1)..Len(t) :
                     (IsLine(t, k2) /\ t[k2].line = <<ReqEcho>> /\ Settled(c, k2))
                         => EchoAnswered(t, k2)

C5_Witness ==
    \E c \in Clients : \E k, k2 \in 1..Len(trace[c]) :
        /\ k < k2
        /\ IsLine(trace[c], k) /\ UnknownMethod(trace[c][k].line)
        /\ Cardinality(RepliesTo(trace[c], k)) = 1
        /\ IsLine(trace[c], k2) /\ trace[c][k2].line = <<ReqEcho>>
        /\ EchoAnswered(trace[c], k2)
        /\ conn[c] = "open"

(***************************************************************************)
(* C6: when a method of the mapping raises, the reply is an error with the *)
(* request's id and the text of the failure; the session goes on and the   *)
(* listening socket stays open for further connections.                    *)
(***************************************************************************)
C6_HandlerFault ==
    \A c \in Clients : \A k \in 1..Len(trace[c]) :
        LET t == trace[c]
        IN (IsCall(t, k) /\ t[k].raised)
            => /\ k > 1 /\ IsLine(t, k - 1)
               /\ Settled(c, k - 1) => Cardinality(RepliesTo(t, k - 1)) = 1
               /\ \A j \in RepliesTo(t, k - 1) :
                     /\ j = k + 1
                     /\ t[j].msg.type = Str("error")
                     /\ t[j].msg.id = Decode(t[k - 1].line).msg.id
                     /\ t[j].msg.error.k = "str" /\ Truthy(t[j].msg.error)
                     /\ t[k].method = Str("boom") => t[j].msg.error = Str("boom")
               /\ EndedByPeerOrStop(c)
               /\ conn[c] = "open" => cur[srv[c]] = c
               /\ pc[srv[c]] \in {"accept", "recv", "lines", "send"}
                     => sock[srv[c]] = "listening"

C6_Witness ==
    \E a, b \in Clients : \E k \in 1..Len(trace[a]) :
        /\ a # b
        /\ IsCall(trace[a], k) /\ trace[a][k].raised
        /\ k < Len(trace[a]) /\ IsReply(trace[a], k + 1)
        /\ trace[a][k + 1].msg.type = Str("error")
        /\ conn[a] = "closed" /\ conn[b] = "open" /\ srv[b] = srv[a]
        /\ \E j \in 1..Len(trace[b]) :
              IsReply(trace[b], j) /\ trace[b][j].msg.type = Str("response")

(***************************************************************************)
(* C7: on one connection the lines are taken in the order in which they    *)
(* were received, each reply answers the line taken last and is the only   *)
(* reply to it, and a method is invoked only for the line taken last, so   *)
(* after every earlier line's reply.                                       *)
(***************************************************************************)
RECURSIVE NonBlankLines(_)
NonBlankLines(bytes) ==
    IF ~HasNL(bytes) THEN << >>
    ELSE LET j == FirstNL(bytes)
             line == SubSeq(bytes, 1, j - 1)
         IN (IF IsBlank(line) THEN << >> ELSE <<line>>)
                \o NonBlankLines(SubSeq(bytes, j + 1, Len(bytes)))

LinesTaken(t) ==
    LET ls == SelectSeq(t, LAMBDA e : e.ev = "line")
    IN [j \in 1..Len(ls) |-> ls[j].line]

C7_RepliesInOrder ==
    \A c \in Clients :
        LET t == trace[c]
            taken == LinesTaken(t)
            received == NonBlankLines(sent[c])
        IN /\ Len(taken) <= Len(received)
           /\ taken = SubSeq(received, 1, Len(taken))
           /\ \A k \in 1..Len(t) :
                 IsCall(t, k) =>
                     /\ k > 1 /\ IsLine(t, k - 1)
                     /\ t[k].method = Decode(t[k - 1].line).msg.method
           /\ \A k \in 1..Len(t) :
                 IsReply(t, k) =>
                     \E h \in 1..(k - 1) :
                         /\ IsLine(t, h)
                         /\ RepliesTo(t, h) = {k}
                         /\ \A j \in CallsFor(t, h) : j < k
                         /\ t[k].msg.id = Decode(t[h].line).msg.id

C7_Witness ==
    \E c \in Clients : \E k, k2 \in 1..Len(trace[c]) :
        /\ k < k2
        /\ IsReply(trace[c], k) /\ IsReply(trace[c], k2)
        /\ trace[c][k].msg.id # trace[c][k2].msg.id
        /\ \E h \in (k + 1)..(k2 - 1) : IsCall(trace[c], h)

(***************************************************************************)
(* C8: when __init__ runs over an endpoint file that a killed worker left  *)
(* behind, the path is free afterwards; and start() of an instance that    *)
(* found such a file, with its path still free, binds and enters the       *)
(* accept loop.                                                            *)
(***************************************************************************)
C8_StaleRebind ==
    [][ \A i \in Servers :
          /\ (pc[i] = "none" /\ pc'[i] = "init" /\ found'[i] = Stale)
                => file'[PipePath(ident'[i])] = NoFile
          /\ ( /\ pc[i] = "init" /\ hset[i] /\ pc'[i] # "init"
               /\ found[i] = Stale /\ file[PipePath(ident[i])] = NoFile )
                => /\ pc'[i] = "accept"
                   /\ sock'[i] = "listening"
                   /\ file'[PipePath(ident[i])] = i
                   /\ err'[i] = "none" ]_vars

C8_Witness ==
    \E i \in Servers :
        /\ found[i] = Stale
        /\ pc[i] = "accept" /\ sock[i] = "listening"
        /\ file[PipePath(ident[i])] = i

(***************************************************************************)
(* C9: a reply holds exactly the fields of its kind: id, type and result   *)
(* for a response, id, type and error for an error; the reply to the echo  *)
(* request "1" with args ["hi"] is exactly id "1", response, result "hi".  *)
(***************************************************************************)
C9_ReplyFields ==
    \A c \in Clients : \A k \in 1..Len(trace[c]) :
        LET t == trace[c]
        IN IsReply(t, k) =>
            /\ t[k].msg.type = Str("response") => DOMAIN t[k].msg = {"id", "type", "result"}
            /\ t[k].msg.type = Str("error") => DOMAIN t[k].msg = {"id", "type", "error"}
            /\ (k > 2 /\ IsLine(t, k - 2) /\ t[k - 2].line = <<ReqEcho>>)
                  => t[k].msg = [id |-> Str("1"), type |-> Str("response"),
                                 result |-> Str("hi")]

(***************************************************************************)
(* C10: for every byte sequence B, a request whose one argument is the     *)
(* tagged buffer of B reaches the echo method as the bytes B, and the      *)
(* reply is a response whose result is a tagged buffer that decodes to B.  *)
(***************************************************************************)
C10_BufferRoundTrip ==
    \A c \in Clients : \A k \in 1..Len(trace[c]) :
        LET t == trace[c]
        IN \A bs \in ByteSeqs :
            (IsLine(t, k) /\ t[k].line = <<ReqBuffer(bs)>>)
                => /\ k < Len(t) => /\ IsCall(t, k + 1)
                                    /\ t[k + 1].args = <<Bytes(bs)>>
                                    /\ ~t[k + 1].raised
                   /\ Settled(c, k) => Cardinality(RepliesTo(t, k)) = 1
                   /\ \A j \in RepliesTo(t, k) :
                         /\ t[j].msg.type = Str("response")
                         /\ t[j].msg.id = Str("7")
                         /\ IsTagged(t[j].msg.result)
                         /\ t[j].msg.result.v["data"].k = "b64"
                         /\ B64Valid(t[j].msg.result.v["data"].v)
                         /\ B64Decode(t[j].msg.result.v["data"].v) = bs

C10_Witness ==
    \E c \in Clients : \E k \in 1..Len(trace[c]) :
        /\ IsLine(trace[c], k)
        /\ trace[c][k].line = <<ReqBuffer(<<0, 1, 255>>)>>
        /\ RepliesTo(trace[c], k) # {}
        /\ \A j \in RepliesTo(trace[c], k) :
              B64Decode(trace[c][j].msg.result.v["data"].v) = <<0, 1, 255>>

(***************************************************************************)
(* C11: for every message M of kind request, response or error, the        *)
(* message that from_dict builds from to_dict(M) equals M in every field:  *)
(* whenever the worker takes the line a peer wrote for M, the message it   *)
(* decodes is M.                                                           *)
(***************************************************************************)
C11_MessageRoundTrip ==
    \A c \in Clients : \A k \in 1..Len(trace[c]) :
        IsLine(trace[c], k) =>
            \A m \in Messages :
                trace[c][k].line = <<J(Dict(to_dict(m)))>>
                    => /\ Decode(trace[c][k].line).ok
                       /\ Decode(trace[c][k].line).msg = m

C11_Witness ==
    \E c \in Clients : \E k \in 1..Len(trace[c]) :
        LET m == IPCMessage(Num(9), Str("error"), Str("noop"), None, Str("r"), Str("e"))
        IN /\ IsLine(trace[c], k)
           /\ trace[c][k].line = <<J(Dict(to_dict(m)))>>
           /\ Decode(trace[c][k].line).msg.args = List(<< >>)
           /\ Decode(trace[c][k].line).msg.error = Str("e")

(***************************************************************************)
(* C12: when start() of an instance with a handler runs while another      *)
(* instance is listening on the same endpoint address, the bind fails:     *)
(* start() raises OSError to its caller and never enters the accept loop.  *)
(***************************************************************************)
LiveListenerAt(i) ==
    \E j \in Servers :
        /\ j # i
        /\ sock[j] = "listening"
        /\ PipePath(ident[j]) = PipePath(ident[i])

C12_BindFailsWhenInUse ==
    [][ \A i \in Servers :
          (pc[i] = "init" /\ hset[i] /\ pc'[i] # "init" /\ LiveListenerAt(i))
              => /\ pc'[i] \notin {"accept", "recv", "lines", "send"}
                 /\ err'[i] = "OSError"
                 /\ sock'[i] # "listening" ]_vars

(***************************************************************************)
(* C13: a module of the Service variant is in the accept loop (accepting   *)
(* or serving a connection) only after its startup step has completed      *)
(* successfully.                                                           *)
(***************************************************************************)
C13_ServiceStartedBeforeServing ==
    \A i \in Servers :
        (startup[i] # "na" /\ pc[i] \in {"accept", "recv", "lines", "send"})
            => startup[i] = "ok"

(***************************************************************************)
(* C14: once stop() was called on an instance in its accept loop, or an    *)
(* accept failed because the listening socket is gone, no further accept   *)
(* is attempted and start() has left the accept loop for its teardown: an  *)
(* instance whose accept has failed is not in the loop any more, and no    *)
(* accept fails twice.                                                     *)
(***************************************************************************)
C14_StopLeavesAcceptLoop ==
    \A i \in Servers :
        nfail[i] > 0 => /\ pc[i] \in {"closing", "unlink", "done"}
                        /\ nfail[i] = 1

(***************************************************************************)
(* C15: when start() of an instance stops running after its bind (by an    *)
(* interrupt, by a fault of listen, or after a stop requested from         *)
(* outside), stop() has run: the socket is closed before the endpoint file *)
(* is removed, and at the exit self.socket is None and no file is at the   *)
(* instance's path.                                                        *)
(***************************************************************************)
C15_TeardownOnExit ==
    [][ \A i \in Servers :
          /\ pc[i] = "unlink" => sock[i] = "none"
          /\ (pc[i] = "closing" /\ pc'[i] # "closing")
                => (pc'[i] = "unlink" /\ sock'[i] = "none" /\ file' = file)
          /\ (pc[i] # "done" /\ pc'[i] = "done" /\ err'[i] # "RuntimeError")
                => /\ pc[i] = "unlink"
                   /\ sock'[i] = "none"
                   /\ file'[PipePath(ident[i])] = NoFile ]_vars

\* start() has ended by an interrupt in one instance and by a fault of listen
\* in the other, both after their bind
C15_Witness ==
    \E i, j \in Servers :
        /\ pc[i] = "done" /\ err[i] = "none"
        /\ pc[j] = "done" /\ err[j] = "OSError" /\ found[j] = NoFile
        /\ sock[i] = "none" /\ sock[j] = "none"
        /\ file[PipePath(ident[i])] = NoFile

(***************************************************************************)
(* C16: after a write on a connection has failed with a transport fault    *)
(* the session is over: no further line of that connection is taken and no *)
(* method is invoked for it.                                               *)
(***************************************************************************)
C16_SessionEndsOnFault ==
    \A c \in Clients : \A k \in 1..Len(trace[c]) :
        (trace[c][k].ev = "log" /\ trace[c][k].what = "BrokenPipeError")
            => \A j \in (k + 1)..Len(trace[c]) :
                  ~IsLine(trace[c], j) /\ ~IsCall(trace[c], j)

(***************************************************************************)
(* C17: a line that decodes to a message which is no valid request (its    *)
(* type is not "request", or its method is absent or empty) gets exactly   *)
(* one reply, of type error and with the id of the line; no method is      *)
(* invoked for it, the session stays open and a later echo request is      *)
(* answered.                                                               *)
(***************************************************************************)
InvalidRequest(line) ==
    LET d == Decode(line)
    IN /\ d.ok
       /\ d.msg.type # Str("request") \/ ~Truthy(d.msg.method)

C17_InvalidRequestRejected ==
    \A c \in Clients : \A k \in 1..Len(trace[c]) :
        LET t == trace[c]
        IN (IsLine(t, k) /\ InvalidRequest(t[k].line))
            => /\ CallsFor(t, k) = {}
               /\ Cardinality(RepliesTo(t, k)) <= 1
               /\ Settled(c, k) => Cardinality(RepliesTo(t, k)) = 1
               /\ \A j \in RepliesTo(t, k) :
                     /\ t[j].msg.type = Str("error")
                     /\ t[j].msg.id = Decode(t[k].line).msg.id
                     /\ t[j].msg.error.k = "str" /\ Truthy(t[j].msg.error)
               /\ EndedByPeerOrStop(c)
               /\ \A k2 \in (k + 1)..Len(t) :
                     (IsLine(t, k2) /\ t[k2].line = <<ReqEcho>> /\ Settled(c, k2))
                         => EchoAnswered(t, k2)

\* A message of type response that names the method echo was refused, and
\* the echo request after it was answered
C17_Witness ==
    \E c \in Clients : \E k, k2 \in 1..Len(trace[c]) :
        LET t == trace[c]
        IN /\ k < k2
           /\ IsLine(t, k) /\ InvalidRequest(t[k].line)
           /\ Decode(t[k].line).msg.type = Str("response")
           /\ Decode(t[k].line).msg.method = Str("echo")
           /\ Cardinality(RepliesTo(t, k)) = 1
           /\ IsLine(t, k2) /\ t[k2].line = <<ReqEcho>>
           /\ EchoAnswered(t, k2)
           /\ conn[c] = "open"

(***************************************************************************)
(* C18: a line that is empty or holds only whitespace is never taken as a  *)
(* message: no method is invoked and no reply written for it; and what a   *)
(* live session has done for the other lines is what it does for the same  *)
(* lines sent without the blank ones.                                      *)
(***************************************************************************)
RECURSIVE AllLines(_)
AllLines(text) ==
    IF \A j \in 1..Len(text) : text[j] # NL THEN << >>
    ELSE LET j == CHOOSE j \in 1..Len(text) :
                      text[j] = NL /\ \A h \in 1..(j - 1) : text[h] # NL
         IN <<SubSeq(text, 1, j - 1)>> \o AllLines(SubSeq(text, j + 1, Len(text)))

OnlyWhitespace(line) == \A j \in 1..Len(line) : line[j] = SP

\* The lines of the text with the blank ones left out
VisibleLines(text) == SelectSeq(AllLines(text), LAMBDA line : ~OnlyWhitespace(line))

\* What a session whose peer stays does for a sequence of non-blank lines
RECURSIVE ExpectedTrace(_, _)
ExpectedTrace(name, lines) ==
    IF lines = << >> THEN << >>
    ELSE LET d == Decode(Head(lines))
             r == ProcessMessage(name, d.msg)
         IN (IF ~d.ok
             THEN << LineEvent(Head(lines)), LogEvent(d.why) >>
             ELSE << LineEvent(Head(lines)) >>
                    \o (IF r.called THEN << CallEvent(d.msg, r.raised) >> ELSE << >>)
                    \o (IF DictSerializable(to_dict(r.resp))
                        THEN << ReplyEvent(to_dict(r.resp)) >>
                        ELSE << LogEvent("TypeError") >>))
                \o ExpectedTrace(name, Tail(lines))

IsPrefix(p, q) == Len(p) <= Len(q) /\ p = SubSeq(q, 1, Len(p))

\* The session of c is live and has nothing left to do
Quiet(c) ==
    /\ conn[c] = "open" /\ ~peerClosed[c]
    /\ inflight[c] = << >>
    /\ pc[srv[c]] = "recv"

C18_BlankLinesIgnored ==
    \A c \in Clients :
        LET t == trace[c]
            expected == ExpectedTrace(ident[1].name, VisibleLines(Utf8Decode(sent[c]).text))
        IN /\ \A k \in 1..Len(t) : IsLine(t, k) => ~OnlyWhitespace(t[k].line)
           /\ (conn[c] = "open" /\ ~peerClosed[c]) => IsPrefix(t, expected)
           /\ Quiet(c) => t = expected

\* A request, a blank line and a request were sent and both requests answered
C18_Witness ==
    \E c \in Clients :
        /\ AllLines(sent[c]) \in { <<<<ReqEcho>>, <<SP>>, <<ReqEcho>>>>,
                                    <<<<ReqEcho>>, << >>, <<ReqEcho>>>> }
        /\ Quiet(c)
        /\ Len(trace[c]) = 6
        /\ IsReply(trace[c], 3) /\ IsReply(trace[c], 6)

(***************************************************************************)
(* C19: two instances constructed for identities that differ in name,      *)
(* version or language have different endpoint paths.                      *)
(***************************************************************************)
C19_PathsUnique ==
    \A i, j \in Servers :
        (pc[i] # "none" /\ pc[j] # "none" /\ ident[i] # ident[j])
            => PipePath(ident[i]) # PipePath(ident[j])

(***************************************************************************)
(* C20: for one byte stream of lines, every split of the stream into recv  *)
(* chunks gives the same lines, method invocations and replies (those of   *)
(* the stream read in one piece), and no split ends the session: the       *)
(* connection is closed by the worker only after the peer closed.          *)
(***************************************************************************)
C20_ChunkingIndependent ==
    \A c \in Clients :
        LET whole == ExpectedTrace(ident[1].name, VisibleLines(Utf8Decode(sent[c]).text))
        IN /\ conn[c] = "closed" => peerClosed[c]
           /\ ~peerClosed[c] => IsPrefix(trace[c], whole)
           /\ (~peerClosed[c] /\ conn[c] = "open" /\ inflight[c] = << >>
                 /\ pc[srv[c]] = "recv") => trace[c] = whole

(***************************************************************************)
(* C21: the handler mapping holds only public callable attribute names, so *)
(* no method whose name starts with '_' is ever invoked: every request     *)
(* that names such a method gets an error reply and no invocation, for any *)
(* sequence of requests.                                                   *)
(***************************************************************************)
NamesPrivate(line) ==
    LET d == Decode(line)
    IN /\ d.ok
       /\ d.msg.type = Str("request")
       /\ d.msg.method.k = "str"
       /\ StartsWithUnderscore(d.msg.method.v)

C21_PrivateNeverInvoked ==
    /\ \A n \in DOMAIN Methods :
          n # << >> /\ n[1] # "_" /\ Attributes[n] # "value"
    /\ \A c \in Clients : \A k \in 1..Len(trace[c]) :
          LET t == trace[c]
          IN /\ IsCall(t, k) => (t[k].method.v = << >> \/ t[k].method.v[1] # "_")
             /\ (IsLine(t, k) /\ NamesPrivate(t[k].line))
                   => /\ CallsFor(t, k) = {}
                      /\ Settled(c, k) => Cardinality(RepliesTo(t, k)) = 1
                      /\ \A j \in RepliesTo(t, k) :
                            /\ t[j].msg.type = Str("error")
                            /\ t[j].msg.id = Str("11")

\* A public method was invoked and answered, and the request after it that
\* names _secret got an error reply
C21_Witness ==
    \E c \in Clients : \E k, k2 \in 1..Len(trace[c]) :
        LET t == trace[c]
        IN /\ k < k2
           /\ IsCall(t, k) /\ ~t[k].raised
           /\ IsLine(t, k2) /\ t[k2].line = <<ReqAttr(<<"_", "secret">>)>>
           /\ Cardinality(RepliesTo(t, k2)) = 1
           /\ \A j \in RepliesTo(t, k2) : t[j].msg.type = Str("error")

=============================================================================
